---- MODULE Spec2Model ----
(***************************************************************************)
(* PARMCO Bluetooth motor-control server (src/final/parmco_server.c).      *)
(*                                                                         *)
(* The model follows the final server: the C globals and the four output   *)
(* pins are the state, main() is a process whose position is pc, the       *)
(* signal handler, the tachometer callback, the clock and the scenario are   *)
(* the environment.  Doubles of the source hold integers only (sums of     *)
(* integer errors clamped to +-50), so they are modelled as integers; the  *)
(* products with the gains are computed in thousandths and truncated       *)
(* toward zero as the (int) casts do.                                      *)
(***************************************************************************)
EXTENDS Integers, Sequences, FiniteSets, TLC

\* ------------------------------------------------------------------------
\* Program constants
\* ------------------------------------------------------------------------
\* Clock values are counted in units of 4 microseconds, so that the 32-bit
\* tick counter (2^32 microseconds) is 2^30 units: LOOP_PERIOD is the source's
\* 1000000 us and SEND_PERIOD its 500000 us.
LOOP_PERIOD == 250000
SEND_PERIOD == 125000
MAX_PHYSICS_RPM == 12000
PID_MAX_INTEGRAL == 50
PID_MIN_INTEGRAL == -50
MAX_CHANGE_PER_LOOP == 5
NUM_BUFFER_SIZE == 16
PWM_SCALE == 10000
MANUAL_STEP == 10
TARGET_STEP == 100
DEFAULT_TARGET == 500
\* PID_KP = 0.01 and PID_KI = 0.005, in thousandths
PID_KP_MILLI == 10
PID_KI_MILLI == 5
\* get_current_tick returns a uint32_t of microseconds: 2^32 us = 2^30 units
TickModulus == 1073741824

\* ------------------------------------------------------------------------
\* Bounds of the model
\* ------------------------------------------------------------------------
\* the clock advances MaxTime times, by the scenario's quantum
MaxTime == 2
\* edges counted in one window never exceed MaxPulses
MaxPulses == 30
\* digits the scenario types after "r:" in the server specification
MaxDigits == 2
\* '+' is sent only while the target stays within MaxTarget
MaxTarget == 600

\* ------------------------------------------------------------------------
\* Bytes
\* ------------------------------------------------------------------------
Digits == {"0", "1", "2", "3", "4", "5", "6", "7", "8", "9"}
LineTerminators == {"\n", "\r"}
CommandBytes == {"s", "x", "c", "v", "f", "d", "a", "m", "+", "-"}

isdigit(c) == c \in Digits

DigitValue(c) ==
    CASE c = "0" -> 0 [] c = "1" -> 1 [] c = "2" -> 2 [] c = "3" -> 3
      [] c = "4" -> 4 [] c = "5" -> 5 [] c = "6" -> 6 [] c = "7" -> 7
      [] c = "8" -> 8 [] c = "9" -> 9

\* atoi of the NUL-terminated digit buffer.  glibc's atoi is (int)strtol:
\* a value beyond LONG_MAX saturates, and the cast to int keeps the low 32
\* bits.  The build decides: long has 32 bits on ILP32 (the value saturates
\* at 2147483647) and 64 bits on LP64 (fifteen digits fit, the cast wraps).
\* The value is accumulated in two 16-bit limbs; over tells that it has
\* passed 2^31 - 1.
Limb == 65536
HalfLimb == 32768
INT_MAX == 2147483647

AtoiStep(acc, d) ==
    LET lo10 == acc.lo * 10 + d
        hi10 == acc.hi * 10 + (lo10 \div Limb)
    IN [hi |-> hi10 % Limb, lo |-> lo10 % Limb,
        over |-> acc.over \/ hi10 >= HalfLimb]

RECURSIVE AtoiAcc(_, _)
AtoiAcc(acc, buf) ==
    IF buf = << >> THEN acc
    ELSE AtoiAcc(AtoiStep(acc, DigitValue(Head(buf))), Tail(buf))

atoi(buf, build) ==
    LET acc == AtoiAcc([hi |-> 0, lo |-> 0, over |-> FALSE], buf) IN
    IF build = "ILP32" /\ acc.over THEN INT_MAX
    ELSE IF acc.hi >= HalfLimb THEN (acc.hi - Limb) * Limb + acc.lo
    ELSE acc.hi * Limb + acc.lo

\* (int) of a double given in thousandths: truncation toward zero
TruncMilli(n) == IF n >= 0 THEN n \div 1000 ELSE -((-n) \div 1000)

\* ------------------------------------------------------------------------
\* State
\* ------------------------------------------------------------------------
VARIABLES
    keep_running,      \* cancellation flag
    revolution_count,  \* tachometer pulse counter
    rpm,               \* instantaneous RPM
    rpm_smooth,        \* smoothed RPM
    speed_percent,     \* commanded power 0..100
    current_mode,      \* "MANUAL_MODE" | "AUTO_MODE"
    motor_running,     \* master power flag
    desired_rpm,       \* target RPM
    pid_integral,      \* accumulated error
    pid_last_error,    \* previous error
    p_state,           \* parser state
    num_buffer,        \* digits stored so far (the bytes before the NUL)
    num_buf_idx,       \* index of the next free slot of num_buffer
    pwm_duty,          \* duty last written to SPEED_PIN
    dir_a, dir_b,      \* levels of DIR_A_PIN and DIR_B_PIN
    master_on,         \* level of MASTER_ON_PIN
    pc,                \* position of main()
    exit_code,         \* return value of main(), -1 while running
    now,               \* the microsecond clock
    current_tick,      \* main()'s locals
    last_loop_tick,
    last_send_tick,
    raw_rpm,
    io,                \* this iteration's last accept/read/write call and its outcome
    executed,          \* "CMD EXEC" / "PARSED RPM TARGET" lines of this iteration's read
    telemetry,         \* integer of the "RPM:%d" line written in this iteration, or -1
    scenario,          \* what the outside does in this run
    abi,               \* the build's data model, "ILP32" or "LP64"
    stream,            \* parser specification: the bytes to feed
    fed,               \* parser specification: how many were fed
    fragments,         \* parser specification: in how many reads
    server_sock        \* the listening socket: "none", "listening" or "invalid"

vars == << keep_running, revolution_count, rpm, rpm_smooth, speed_percent,
           current_mode, motor_running, desired_rpm, pid_integral,
           pid_last_error, p_state, num_buffer, num_buf_idx, pwm_duty,
           dir_a, dir_b, master_on, pc, exit_code, now, current_tick,
           last_loop_tick, last_send_tick, raw_rpm, io, executed, telemetry,
           scenario, abi, stream, fed, fragments, server_sock >>

\* The globals and pins as one value, so that the C functions are operators
\* from state to state; log collects the lines printed on the way.
G == [ revolution_count |-> revolution_count, rpm |-> rpm,
       rpm_smooth |-> rpm_smooth, speed_percent |-> speed_percent,
       current_mode |-> current_mode, motor_running |-> motor_running,
       desired_rpm |-> desired_rpm, pid_integral |-> pid_integral,
       pid_last_error |-> pid_last_error, p_state |-> p_state,
       num_buffer |-> num_buffer, num_buf_idx |-> num_buf_idx,
       pwm_duty |-> pwm_duty, dir_a |-> dir_a, dir_b |-> dir_b,
       master_on |-> master_on, abi |-> abi, log |-> << >> ]

Store(s) ==
    /\ revolution_count' = s.revolution_count
    /\ rpm' = s.rpm
    /\ rpm_smooth' = s.rpm_smooth
    /\ speed_percent' = s.speed_percent
    /\ current_mode' = s.current_mode
    /\ motor_running' = s.motor_running
    /\ desired_rpm' = s.desired_rpm
    /\ pid_integral' = s.pid_integral
    /\ pid_last_error' = s.pid_last_error
    /\ p_state' = s.p_state
    /\ num_buffer' = s.num_buffer
    /\ num_buf_idx' = s.num_buf_idx
    /\ pwm_duty' = s.pwm_duty
    /\ dir_a' = s.dir_a
    /\ dir_b' = s.dir_b
    /\ master_on' = s.master_on

\* What stdout shows of the parser's output: "CMD EXEC: '<c>'" (process_command)
\* and "PARSED RPM TARGET: <n>" (parse_input_byte)
SimpleChar(c) == [kind |-> "SimpleChar", char |-> c, value |-> 0]
SetTargetRpm(n) == [kind |-> "SetTargetRpm", char |-> "r", value |-> n]

\* ------------------------------------------------------------------------
\* The C functions
\* ------------------------------------------------------------------------
\* an all-stop that ramps the power down by half instead of cutting it
stop_all_activity_SoftStop(s) ==
    [s EXCEPT !.pwm_duty = (s.speed_percent \div 2) * PWM_SCALE,
              !.dir_a = 0, !.dir_b = 0, !.master_on = 0,
              !.speed_percent = s.speed_percent \div 2,
              !.revolution_count = 0, !.rpm = 0,
              !.rpm_smooth = 0, !.motor_running = 0, !.desired_rpm = 0,
              !.pid_integral = 0, !.pid_last_error = 0,
              !.p_state = "STATE_NORMAL"]

\* an all-stop that leaves the master enable pin alone
stop_all_activity_KeepsMaster(s) ==
    [s EXCEPT !.pwm_duty = 0, !.dir_a = 0, !.dir_b = 0,
              !.speed_percent = 0, !.revolution_count = 0, !.rpm = 0,
              !.rpm_smooth = 0, !.motor_running = 0, !.desired_rpm = 0,
              !.pid_integral = 0, !.pid_last_error = 0,
              !.p_state = "STATE_NORMAL"]

\* an all-stop that forgets the controller's accumulators
stop_all_activity_KeepsIntegral(s) ==
    [s EXCEPT !.pwm_duty = 0, !.dir_a = 0, !.dir_b = 0, !.master_on = 0,
              !.speed_percent = 0, !.revolution_count = 0, !.rpm = 0,
              !.rpm_smooth = 0, !.motor_running = 0, !.desired_rpm = 0,
              !.p_state = "STATE_NORMAL"]

\* an all-stop that also returns to MANUAL mode
stop_all_activity_ResetsMode(s) ==
    [s EXCEPT !.pwm_duty = 0, !.dir_a = 0, !.dir_b = 0, !.master_on = 0,
              !.speed_percent = 0, !.revolution_count = 0, !.rpm = 0,
              !.rpm_smooth = 0, !.motor_running = 0, !.desired_rpm = 0,
              !.pid_integral = 0, !.pid_last_error = 0,
              !.p_state = "STATE_NORMAL", !.current_mode = "MANUAL_MODE"]

\* an all-stop that leaves the parser where it was
stop_all_activity_KeepsParser(s) ==
    [s EXCEPT !.pwm_duty = 0, !.dir_a = 0, !.dir_b = 0, !.master_on = 0,
              !.speed_percent = 0, !.revolution_count = 0, !.rpm = 0,
              !.rpm_smooth = 0, !.motor_running = 0, !.desired_rpm = 0,
              !.pid_integral = 0, !.pid_last_error = 0]

stop_all_activity(s) ==
    [s EXCEPT !.pwm_duty = 0, !.dir_a = 0, !.dir_b = 0, !.master_on = 0,
              !.speed_percent = 0, !.revolution_count = 0, !.rpm = 0,
              !.rpm_smooth = 0, !.motor_running = 0, !.desired_rpm = 0,
              !.pid_integral = 0, !.pid_last_error = 0,
              !.p_state = "STATE_NORMAL"]

Clamp(x, lo, hi) == IF x > hi THEN hi ELSE IF x < lo THEN lo ELSE x

\* a controller update without the clamp of lines 148-149
update_pid_controller_NoClamp(s) ==
    IF s.current_mode # "AUTO_MODE" \/ s.motor_running = 0 THEN s
    ELSE LET error == s.desired_rpm - s.rpm_smooth
             integral == IF s.pid_integral + error > PID_MAX_INTEGRAL
                         THEN PID_MAX_INTEGRAL
                         ELSE IF s.pid_integral + error < PID_MIN_INTEGRAL
                         THEN PID_MIN_INTEGRAL ELSE s.pid_integral + error
             raw == PID_KP_MILLI * error + PID_KI_MILLI * integral
             out == IF raw >= 0 THEN raw \div 1000 ELSE -((-raw) \div 1000)
             change == IF out > MAX_CHANGE_PER_LOOP THEN MAX_CHANGE_PER_LOOP
                       ELSE IF out < -MAX_CHANGE_PER_LOOP
                       THEN -MAX_CHANGE_PER_LOOP ELSE out
             speed == s.speed_percent + change
         IN [s EXCEPT !.pid_integral = integral, !.speed_percent = speed,
                      !.pwm_duty = speed * PWM_SCALE, !.pid_last_error = error]

\* a controller update that runs in every mode
update_pid_controller_Ungated(s) ==
    IF FALSE THEN s
    ELSE LET error == s.desired_rpm - s.rpm_smooth
             integral == Clamp(s.pid_integral + error,
                               PID_MIN_INTEGRAL, PID_MAX_INTEGRAL)
             change == Clamp(TruncMilli(PID_KP_MILLI * error + PID_KI_MILLI * integral),
                             -MAX_CHANGE_PER_LOOP, MAX_CHANGE_PER_LOOP)
             speed == Clamp(s.speed_percent + change, 0, 100)
         IN [s EXCEPT !.pid_integral = integral, !.speed_percent = speed,
                      !.pwm_duty = speed * PWM_SCALE, !.pid_last_error = error]

\* a controller update without the step limit of lines 144-145
update_pid_controller_NoStepClamp(s) ==
    IF s.current_mode # "AUTO_MODE" \/ s.motor_running = 0 THEN s
    ELSE LET error == s.desired_rpm - s.rpm_smooth
             integral == Clamp(s.pid_integral + error,
                               PID_MIN_INTEGRAL, PID_MAX_INTEGRAL)
             change == TruncMilli(PID_KP_MILLI * error + PID_KI_MILLI * integral)
             speed == Clamp(s.speed_percent + change, 0, 100)
         IN [s EXCEPT !.pid_integral = integral, !.speed_percent = speed,
                      !.pwm_duty = speed * PWM_SCALE, !.pid_last_error = error]

\* a controller update without the integral limits of lines 137-138
update_pid_controller_NoIntegralClamp(s) ==
    IF s.current_mode # "AUTO_MODE" \/ s.motor_running = 0 THEN s
    ELSE LET error == s.desired_rpm - s.rpm_smooth
             integral == s.pid_integral + error
             change == Clamp(TruncMilli(PID_KP_MILLI * error + PID_KI_MILLI * integral),
                             -MAX_CHANGE_PER_LOOP, MAX_CHANGE_PER_LOOP)
             speed == Clamp(s.speed_percent + change, 0, 100)
         IN [s EXCEPT !.pid_integral = integral, !.speed_percent = speed,
                      !.pwm_duty = speed * PWM_SCALE, !.pid_last_error = error]

update_pid_controller(s) ==
    IF s.current_mode # "AUTO_MODE" \/ s.motor_running = 0 THEN s
    ELSE LET error == s.desired_rpm - s.rpm_smooth
             integral == Clamp(s.pid_integral + error,
                               PID_MIN_INTEGRAL, PID_MAX_INTEGRAL)
             change == Clamp(TruncMilli(PID_KP_MILLI * error + PID_KI_MILLI * integral),
                             -MAX_CHANGE_PER_LOOP, MAX_CHANGE_PER_LOOP)
             speed == Clamp(s.speed_percent + change, 0, 100)
         IN [s EXCEPT !.pid_integral = integral, !.speed_percent = speed,
                      !.pwm_duty = speed * PWM_SCALE, !.pid_last_error = error]

\* lines 192-194 and 235-237: a direction is set if none was chosen
DefaultDirection(s) ==
    IF s.dir_a = 0 /\ s.dir_b = 0 THEN [s EXCEPT !.dir_a = 0, !.dir_b = 1] ELSE s

\* cases 'c' and 'v': the two gpio_write calls, in the order of the source
direction_writes(cmd) ==
    IF cmd = "c" THEN << <<"DIR_A_PIN", 0>>, <<"DIR_B_PIN", 1>> >>
    ELSE IF cmd = "v" THEN << <<"DIR_A_PIN", 1>>, <<"DIR_B_PIN", 0>> >>
    ELSE << >>

gpio_write(s, w) ==
    IF w[1] = "DIR_A_PIN" THEN [s EXCEPT !.dir_a = w[2]]
    ELSE [s EXCEPT !.dir_b = w[2]]

\* the state after the first n writes of ws
RECURSIVE gpio_writes(_, _, _)
gpio_writes(s, ws, n) ==
    IF n = 0 THEN s ELSE gpio_write(gpio_writes(s, ws, n - 1), ws[n])

cmd_direction(s, cmd) ==
    gpio_writes(s, direction_writes(cmd), Len(direction_writes(cmd)))

\* case 's'
cmd_start(s) ==
    [s EXCEPT !.master_on = 1, !.motor_running = 1,
              !.pid_integral = 0, !.pid_last_error = 0]

\* a Faster that does not look at the mode
cmd_faster_Ungated(s) ==
    LET p == IF s.speed_percent + MANUAL_STEP > 100 THEN 100
             ELSE s.speed_percent + MANUAL_STEP
    IN [s EXCEPT !.speed_percent = p, !.pwm_duty = p * PWM_SCALE]

\* case 'f'
cmd_faster(s) ==
    IF s.current_mode = "MANUAL_MODE"
    THEN LET p == IF s.speed_percent + MANUAL_STEP > 100 THEN 100
                  ELSE s.speed_percent + MANUAL_STEP
         IN [s EXCEPT !.speed_percent = p, !.pwm_duty = p * PWM_SCALE]
    ELSE s

\* case 'd'
cmd_slower(s) ==
    IF s.current_mode = "MANUAL_MODE"
    THEN LET p == IF s.speed_percent - MANUAL_STEP < 0 THEN 0
                  ELSE s.speed_percent - MANUAL_STEP
         IN [s EXCEPT !.speed_percent = p, !.pwm_duty = p * PWM_SCALE]
    ELSE s

\* an Auto command that leaves a zero target at zero
cmd_auto_NoDefault(s) ==
    LET t == DefaultDirection([s EXCEPT !.current_mode = "AUTO_MODE",
                                        !.motor_running = 1,
                                        !.master_on = 1])
    IN [t EXCEPT !.pid_integral = 0, !.pid_last_error = 0]

\* case 'a'
cmd_auto(s) ==
    LET t == DefaultDirection([s EXCEPT !.current_mode = "AUTO_MODE",
                                        !.motor_running = 1,
                                        !.master_on = 1])
    IN [t EXCEPT !.desired_rpm = IF @ = 0 THEN DEFAULT_TARGET ELSE @,
                 !.pid_integral = 0, !.pid_last_error = 0]

\* case '+'
cmd_increment(s) ==
    IF s.current_mode = "AUTO_MODE"
    THEN [s EXCEPT !.desired_rpm = @ + TARGET_STEP] ELSE s

\* case '-'
cmd_decrement(s) ==
    IF s.current_mode = "AUTO_MODE"
    THEN [s EXCEPT !.desired_rpm = IF @ - TARGET_STEP < 0 THEN 0
                                   ELSE @ - TARGET_STEP]
    ELSE s

process_command(s0, cmd) ==
    LET s == [s0 EXCEPT !.log = Append(@, SimpleChar(cmd))] IN
    CASE cmd = "s" -> cmd_start(s)
      [] cmd = "x" -> stop_all_activity(s)
      [] cmd = "c" -> cmd_direction(s, "c")
      [] cmd = "v" -> cmd_direction(s, "v")
      [] cmd = "f" -> cmd_faster(s)
      [] cmd = "d" -> cmd_slower(s)
      [] cmd = "a" -> cmd_auto(s)
      [] cmd = "m" -> [s EXCEPT !.current_mode = "MANUAL_MODE"]
      [] cmd = "+" -> cmd_increment(s)
      [] cmd = "-" -> cmd_decrement(s)
      [] OTHER -> s

\* lines 228-239: the token's digits become the target
set_target(s) ==
    IF s.num_buf_idx > 0
    THEN LET n == atoi(s.num_buffer, s.abi)
             u == [s EXCEPT !.desired_rpm = n, !.log = Append(@, SetTargetRpm(n))]
         IN IF u.current_mode # "AUTO_MODE"
            THEN DefaultDirection([u EXCEPT !.current_mode = "AUTO_MODE",
                                            !.motor_running = 1,
                                            !.master_on = 1])
            ELSE u
    ELSE s

\* a parser that stores every digit it is given
parse_input_byte_Unbounded(s, c) ==
    CASE s.p_state = "STATE_NORMAL" ->
           IF c = "r" THEN [s EXCEPT !.p_state = "STATE_WAIT_COLON"]
           ELSE process_command(s, c)
      [] s.p_state = "STATE_WAIT_COLON" ->
           IF c = ":"
           THEN [s EXCEPT !.p_state = "STATE_READ_NUM", !.num_buf_idx = 0,
                          !.num_buffer = << >>]
           ELSE process_command([s EXCEPT !.p_state = "STATE_NORMAL"], c)
      [] s.p_state = "STATE_READ_NUM" ->
           IF isdigit(c)
           THEN [s EXCEPT !.num_buffer = Append(@, c), !.num_buf_idx = @ + 1]
           ELSE LET w == [set_target(s) EXCEPT !.p_state = "STATE_NORMAL"]
                IN IF c \notin LineTerminators THEN process_command(w, c) ELSE w

\* a parser that gives up a malformed token together with the byte that
\* broke it
parse_input_byte_SwallowsByte(s, c) ==
    CASE s.p_state = "STATE_NORMAL" ->
           IF c = "r" THEN [s EXCEPT !.p_state = "STATE_WAIT_COLON"]
           ELSE process_command(s, c)
      [] s.p_state = "STATE_WAIT_COLON" ->
           IF c = ":"
           THEN [s EXCEPT !.p_state = "STATE_READ_NUM", !.num_buf_idx = 0,
                          !.num_buffer = << >>]
           ELSE [s EXCEPT !.p_state = "STATE_NORMAL"]
      [] s.p_state = "STATE_READ_NUM" ->
           IF isdigit(c)
           THEN IF s.num_buf_idx < NUM_BUFFER_SIZE - 1
                THEN [s EXCEPT !.num_buffer = Append(@, c),
                               !.num_buf_idx = @ + 1]
                ELSE s
           ELSE LET w == [set_target(s) EXCEPT !.p_state = "STATE_NORMAL"]
                IN IF c \notin LineTerminators /\ s.num_buf_idx > 0
                   THEN process_command(w, c) ELSE w

\* lines 214-245
parse_input_byte(s, c) ==
    CASE s.p_state = "STATE_NORMAL" ->
           IF c = "r" THEN [s EXCEPT !.p_state = "STATE_WAIT_COLON"]
           ELSE process_command(s, c)
      [] s.p_state = "STATE_WAIT_COLON" ->
           IF c = ":"
           THEN [s EXCEPT !.p_state = "STATE_READ_NUM", !.num_buf_idx = 0,
                          !.num_buffer = << >>]
           ELSE process_command([s EXCEPT !.p_state = "STATE_NORMAL"], c)
      [] s.p_state = "STATE_READ_NUM" ->
           IF isdigit(c)
           THEN IF s.num_buf_idx < NUM_BUFFER_SIZE - 1
                THEN [s EXCEPT !.num_buffer = Append(@, c),
                               !.num_buf_idx = @ + 1]
                ELSE s
           ELSE LET w == [set_target(s) EXCEPT !.p_state = "STATE_NORMAL"]
                IN IF c \notin LineTerminators THEN process_command(w, c) ELSE w

\* the for loop over the bytes of one read
RECURSIVE ParseBytes(_, _)
ParseBytes(s, bytes) ==
    IF bytes = << >> THEN s
    ELSE ParseBytes(parse_input_byte(s, Head(bytes)), Tail(bytes))

\* ------------------------------------------------------------------------
\* The control tick's arithmetic
\* ------------------------------------------------------------------------
\* a subtraction of two ticks as signed integers
Elapsed_Signed(cur, last) == cur - last

\* uint32_t subtraction of two ticks
Elapsed(cur, last) == (cur - last) % TickModulus

\* (int)((revs / seconds) * 60.0) with revs = (double)count / 3.0 and
\* seconds = 1.0.  In IEEE-754 doubles the product falls just below the
\* integer 20 * count for the counts listed (all those below 769), and the
\* cast then truncates to 20 * count - 1.
RoundedDownCounts == {49, 98, 101, 193, 196, 199, 202, 386, 389, 392, 395, 398,
                      401, 404, 407}
RawRpm(count) == IF count \in RoundedDownCounts THEN 20 * count - 1 ELSE 20 * count

\* a filter that rounds the mean to the nearest integer, halves upward
Smooth_RoundsUp(prev, raw) == (prev + raw + 1) \div 2

\* (int)((RPM_SMOOTHING * rpm_smooth) + ((1.0 - RPM_SMOOTHING) * raw_rpm)),
\* RPM_SMOOTHING = 0.5, both operands non-negative
Smooth(prev, raw) == (prev + raw) \div 2

\* ------------------------------------------------------------------------
\* Environment of the server specification
\* ------------------------------------------------------------------------
\* A scenario fixes what the outside does in one run: the bytes the scenarios
\* ever send one at a time, one burst of several bytes that arrives in a
\* single read, the numbers of tachometer edges that arrive between two
\* steps of main(), and the step of the clock.
PowerScenario ==
    [bytes |-> {"s", "x", "f", "d", "a", "m"}, burst |-> <<"s", "f", "f">>,
     edges |-> {30}, quantum |-> LOOP_PERIOD]
TargetScenario ==
    [bytes |-> {"x", "a", "m", "+", "-"}, burst |-> <<"a", "-">>,
     edges |-> {30}, quantum |-> LOOP_PERIOD]
DirectionScenario ==
    [bytes |-> {"s", "x", "a", "m", "c", "v", "+"}, burst |-> <<"v", "a">>,
     edges |-> {}, quantum |-> LOOP_PERIOD]
TokenScenario ==
    [bytes |-> {"x", "m", "r", ":", "5", "\n"},
     burst |-> <<"r", ":", "5", "5", "f">>,
     edges |-> {}, quantum |-> LOOP_PERIOD]
TimingScenario ==
    [bytes |-> {"a", "x"}, burst |-> <<"a", "a">>,
     edges |-> {30}, quantum |-> SEND_PERIOD]
Scenarios == {PowerScenario, TargetScenario, DirectionScenario, TokenScenario,
              TimingScenario}
ServerChunks == { <<b>> : b \in scenario.bytes } \cup {scenario.burst}
IoResults == {"ok", "wouldblock", "error"}
NoCall == <<"none", "none">>

\* bytes the scenario may send next, given what the server holds
Deliverable(chunk) ==
    /\ (Len(chunk) = 1 /\ isdigit(chunk[1]) /\ p_state = "STATE_READ_NUM")
          => num_buf_idx < MaxDigits
    /\ (Len(chunk) = 1 /\ chunk[1] = "+") => desired_rpm + TARGET_STEP <= MaxTarget

\* ------------------------------------------------------------------------
\* Initial state: main() has reached its accept loop (line 292)
\* ------------------------------------------------------------------------
Init ==
    /\ keep_running = 1
    /\ revolution_count = 0 /\ rpm = 0 /\ rpm_smooth = 0
    /\ speed_percent = 0
    /\ current_mode = "MANUAL_MODE"
    /\ motor_running = 0 /\ desired_rpm = 0
    /\ pid_integral = 0 /\ pid_last_error = 0
    /\ p_state = "STATE_NORMAL" /\ num_buffer = << >> /\ num_buf_idx = 0
    /\ pwm_duty = 0 /\ dir_a = 0 /\ dir_b = 0 /\ master_on = 0
    /\ pc = "accept" /\ exit_code = -1
    /\ now = 0 /\ current_tick = 0 /\ last_loop_tick = 0 /\ last_send_tick = 0
    /\ raw_rpm = 0
    /\ io = NoCall /\ executed = << >> /\ telemetry = -1
    /\ scenario \in Scenarios
    /\ abi = "ILP32"
    /\ stream = << >> /\ fed = 0 /\ fragments = 0
    /\ server_sock = "listening"

globals == << revolution_count, rpm, rpm_smooth, speed_percent, current_mode,
              motor_running, desired_rpm, pid_integral, pid_last_error,
              p_state, num_buffer, num_buf_idx, pwm_duty, dir_a, dir_b,
              master_on >>
fixed == << scenario, abi, stream, fed, fragments, server_sock >>
locals == << current_tick, last_loop_tick, last_send_tick, raw_rpm >>

\* ------------------------------------------------------------------------
\* main()
\* ------------------------------------------------------------------------
\* A local that is out of scope holds 0: last_loop_tick and last_send_tick
\* live in the body of the outer loop, current_tick in the body of the inner
\* loop, raw_rpm in the block of the control tick.

\* while (keep_running) at line 292, observed false
AcceptCancelled ==
    /\ pc = "accept" /\ keep_running = 0
    /\ pc' = "shutdown"
    /\ UNCHANGED << keep_running, globals, locals, exit_code, now, io,
                    executed, telemetry, fixed >>

\* accept() fails: would-block sleeps and retries, any other error retries
AcceptNone ==
    /\ pc = "accept" /\ keep_running = 1
    /\ \E r \in {"wouldblock", "error"} :
         /\ (r = "wouldblock") => server_sock = "listening"
         /\ io' = <<"accept", r>>
    /\ UNCHANGED << keep_running, globals, locals, pc, exit_code, now,
                    executed, telemetry, fixed >>

\* accept() returns a scenario: lines 299-307
AcceptClient ==
    /\ pc = "accept" /\ keep_running = 1
    /\ server_sock = "listening"
    /\ io' = <<"accept", "ok">>
    /\ Store(stop_all_activity([G EXCEPT !.current_mode = "MANUAL_MODE"]))
    /\ last_loop_tick' = now /\ last_send_tick' = now
    /\ pc' = "loop"
    /\ UNCHANGED << keep_running, current_tick, raw_rpm, exit_code, now,
                    executed, telemetry, fixed >>

\* a loop head that never looks at the flag
LoopHead_IgnoresFlag ==
    /\ pc = "loop"
    /\ pc' = "tick" /\ current_tick' = now
    /\ io' = NoCall /\ executed' = << >> /\ telemetry' = -1
    /\ UNCHANGED << keep_running, globals, last_loop_tick, last_send_tick,
                    raw_rpm, exit_code, now, fixed >>

\* while (keep_running) at line 309 and the clock read at line 310; io,
\* executed and telemetry tell what the iteration has done so far
LoopHead ==
    /\ pc = "loop"
    /\ IF keep_running = 0
       THEN pc' = "session_end" /\ UNCHANGED current_tick
       ELSE pc' = "tick" /\ current_tick' = now
    /\ io' = NoCall /\ executed' = << >> /\ telemetry' = -1
    /\ UNCHANGED << keep_running, globals, last_loop_tick, last_send_tick,
                    raw_rpm, exit_code, now, fixed >>

\* an RPM update that accepts every reading
TickCompute_NoCeiling ==
    /\ pc = "tick"
    /\ IF Elapsed(current_tick, last_loop_tick) >= LOOP_PERIOD
       THEN LET raw == RawRpm(revolution_count) IN
            /\ raw_rpm' = raw
            /\ rpm' = raw /\ rpm_smooth' = Smooth(rpm_smooth, raw)
            /\ pc' = "tick_reset"
       ELSE pc' = "send" /\ UNCHANGED << raw_rpm, rpm, rpm_smooth >>
    /\ UNCHANGED << keep_running, revolution_count, speed_percent, current_mode,
                    motor_running, desired_rpm, pid_integral, pid_last_error,
                    p_state, num_buffer, num_buf_idx, pwm_duty, dir_a, dir_b,
                    master_on, current_tick, last_loop_tick, last_send_tick,
                    exit_code, now, io, executed, telemetry, fixed >>

\* lines 312-324: the RPM update of a due control tick
TickCompute ==
    /\ pc = "tick"
    /\ IF Elapsed(current_tick, last_loop_tick) >= LOOP_PERIOD
       THEN LET raw == RawRpm(revolution_count) IN
            /\ raw_rpm' = raw
            /\ IF raw > MAX_PHYSICS_RPM
               THEN UNCHANGED << rpm, rpm_smooth >>
               ELSE rpm' = raw /\ rpm_smooth' = Smooth(rpm_smooth, raw)
            /\ pc' = "tick_reset"
       ELSE pc' = "send" /\ UNCHANGED << raw_rpm, rpm, rpm_smooth >>
    /\ UNCHANGED << keep_running, revolution_count, speed_percent, current_mode,
                    motor_running, desired_rpm, pid_integral, pid_last_error,
                    p_state, num_buffer, num_buf_idx, pwm_duty, dir_a, dir_b,
                    master_on, current_tick, last_loop_tick, last_send_tick,
                    exit_code, now, io, executed, telemetry, fixed >>

\* lines 326-328: counter reset, tick bookkeeping, controller update
TickFinish ==
    /\ pc = "tick_reset"
    /\ Store(update_pid_controller([G EXCEPT !.revolution_count = 0]))
    /\ last_loop_tick' = current_tick
    /\ raw_rpm' = 0
    /\ pc' = "send"
    /\ UNCHANGED << keep_running, current_tick, last_send_tick,
                    exit_code, now, io, executed, telemetry, fixed >>

\* a telemetry step that leaves the session on every failed write
SendTelemetry_BreaksOnWouldBlock ==
    /\ pc = "send"
    /\ IF Elapsed(current_tick, last_send_tick) >= SEND_PERIOD
       THEN \E r \in IoResults :
              /\ io' = <<"write", r>>
              /\ telemetry' = IF r = "ok" THEN rpm_smooth ELSE telemetry
              /\ IF r # "ok"
                 THEN /\ pc' = "session_end"
                      /\ current_tick' = 0
                      /\ UNCHANGED last_send_tick
                 ELSE /\ pc' = "read"
                      /\ last_send_tick' = current_tick
                      /\ UNCHANGED current_tick
       ELSE /\ pc' = "read"
            /\ UNCHANGED << io, telemetry, last_send_tick, current_tick >>
    /\ UNCHANGED << keep_running, globals, last_loop_tick, raw_rpm, exit_code,
                    now, executed, fixed >>

\* a telemetry step that writes in every iteration
SendTelemetry_EveryIteration ==
    /\ pc = "send"
    /\ \E r \in IoResults :
         /\ io' = <<"write", r>>
         /\ telemetry' = IF r = "ok" THEN rpm_smooth ELSE telemetry
         /\ IF r = "error"
            THEN /\ pc' = "session_end"
                 /\ current_tick' = 0
                 /\ UNCHANGED last_send_tick
            ELSE /\ pc' = "read"
                 /\ last_send_tick' = current_tick
                 /\ UNCHANGED current_tick
    /\ UNCHANGED << keep_running, globals, last_loop_tick, raw_rpm, exit_code,
                    now, executed, fixed >>

\* lines 331-341: the telemetry line, when due
SendTelemetry ==
    /\ pc = "send"
    /\ IF Elapsed(current_tick, last_send_tick) >= SEND_PERIOD
       THEN \E r \in IoResults :
              /\ io' = <<"write", r>>
              /\ telemetry' = IF r = "ok" THEN rpm_smooth ELSE telemetry
              /\ IF r = "error"
                 THEN /\ pc' = "session_end"
                      /\ current_tick' = 0
                      /\ UNCHANGED last_send_tick
                 ELSE /\ pc' = "read"
                      /\ last_send_tick' = current_tick
                      /\ UNCHANGED current_tick
       ELSE /\ pc' = "read"
            /\ UNCHANGED << io, telemetry, last_send_tick, current_tick >>
    /\ UNCHANGED << keep_running, globals, last_loop_tick, raw_rpm, exit_code,
                    now, executed, fixed >>

\* lines 343-347 and 352: read() returned bytes, each is parsed in order;
\* printed is what the log held before
\* a read loop whose parser state does not outlive the read
ParseChunk_FreshParser(chunk, printed) ==
    LET s == ParseBytes([G EXCEPT !.p_state = "STATE_NORMAL"], chunk)
    IN Store(s) /\ executed' = printed \o s.log

\* a read that applies the digits it holds at the end of the chunk
ParseChunk_FlushesToken(chunk, printed) ==
    LET r == ParseBytes(G, chunk)
        s == IF r.p_state = "STATE_READ_NUM" THEN set_target(r) ELSE r
    IN Store(s) /\ executed' = printed \o s.log

\* lines 344-347: every byte of one read goes through the parser
ParseChunk(chunk, printed) ==
    LET s == ParseBytes(G, chunk) IN Store(s) /\ executed' = printed \o s.log

\* a read whose commands are followed by the control tick of the same iteration
ReadBytes_ThenTick(chunk, printed) ==
    /\ pc = "read"
    /\ io' = <<"read", "data">>
    /\ ParseChunk(chunk, printed)
    /\ pc' = "tick"
    /\ current_tick' = now
    /\ UNCHANGED << keep_running, last_loop_tick, last_send_tick, raw_rpm,
                    exit_code, now, telemetry >>

ReadBytes(chunk, printed) ==
    /\ pc = "read"
    /\ io' = <<"read", "data">>
    /\ ParseChunk(chunk, printed)
    /\ pc' = "loop"
    /\ current_tick' = 0
    /\ UNCHANGED << keep_running, last_loop_tick, last_send_tick, raw_rpm,
                    exit_code, now, telemetry >>

ReadInput ==
    /\ \E chunk \in ServerChunks : Deliverable(chunk) /\ ReadBytes(chunk, << >>)
    /\ UNCHANGED fixed

\* lines 348-351: end of stream closes the scenario and leaves the loop
ReadEof ==
    /\ pc = "read"
    /\ io' = <<"read", "eof">>
    /\ pc' = "session_end"
    /\ current_tick' = 0
    /\ UNCHANGED << keep_running, globals, last_loop_tick, last_send_tick,
                    raw_rpm, exit_code, now, executed, telemetry, fixed >>

\* read() returned -1: neither branch of lines 344-351 is taken, whatever
\* errno says
ReadNothing ==
    /\ pc = "read"
    /\ \E r \in {"wouldblock", "error"} : io' = <<"read", r>>
    /\ pc' = "loop"
    /\ current_tick' = 0
    /\ UNCHANGED << keep_running, globals, last_loop_tick, last_send_tick,
                    raw_rpm, exit_code, now, executed, telemetry, fixed >>

\* a session end without the all-stop of line 354
SessionEnd_SkipsStop ==
    /\ pc = "session_end"
    /\ last_loop_tick' = 0 /\ last_send_tick' = 0
    /\ pc' = "accept"
    /\ UNCHANGED << keep_running, globals, current_tick, raw_rpm, exit_code,
                    now, io, executed, telemetry, fixed >>

\* a session end that leaves the accept loop
SessionEnd_Exits ==
    /\ pc = "session_end"
    /\ Store(stop_all_activity(G))
    /\ last_loop_tick' = 0 /\ last_send_tick' = 0
    /\ pc' = "shutdown"
    /\ UNCHANGED << keep_running, current_tick, raw_rpm, exit_code, now, io,
                    executed, telemetry, fixed >>

\* line 354
SessionEnd ==
    /\ pc = "session_end"
    /\ Store(stop_all_activity(G))
    /\ last_loop_tick' = 0 /\ last_send_tick' = 0
    /\ pc' = "accept"
    /\ UNCHANGED << keep_running, current_tick, raw_rpm, exit_code, now, io,
                    executed, telemetry, fixed >>

\* lines 357-360
Shutdown ==
    /\ pc = "shutdown"
    /\ Store(stop_all_activity(G))
    /\ pc' = "done" /\ exit_code' = 0
    /\ UNCHANGED << keep_running, locals, now, io, executed, telemetry, fixed >>

\* ------------------------------------------------------------------------
\* Asynchronous contexts
\* ------------------------------------------------------------------------
int_handler ==
    /\ pc # "done"
    /\ keep_running' = 0
    /\ UNCHANGED << globals, locals, pc, exit_code, now, io, executed, telemetry, fixed >>

\* k qualifying edges arrive between two steps of main()
rpm_callback ==
    /\ pc \notin {"start", "done"}
    /\ \E k \in scenario.edges :
         /\ revolution_count + k <= MaxPulses
         /\ revolution_count' = revolution_count + k
    /\ UNCHANGED << keep_running, rpm, rpm_smooth, speed_percent, current_mode,
                    motor_running, desired_rpm, pid_integral, pid_last_error,
                    p_state, num_buffer, num_buf_idx, pwm_duty, dir_a, dir_b,
                    master_on, locals, pc, exit_code, now, io, executed, telemetry, fixed >>

\* One quantum of time passes.  main() runs its statements in microseconds and
\* spends its time in the usleep calls of lines 295 and 352, so the clock
\* moves while main() is there.
Advance ==
    /\ pc \in {"accept", "loop"}
    /\ now < MaxTime * scenario.quantum
    /\ now' = (now + scenario.quantum) % TickModulus
    /\ UNCHANGED << keep_running, globals, locals, pc, exit_code, io, executed,
                    telemetry, fixed >>

MainStep ==
    \/ AcceptCancelled \/ AcceptNone \/ AcceptClient
    \/ LoopHead \/ TickCompute \/ TickFinish \/ SendTelemetry
    \/ ReadInput \/ ReadEof \/ ReadNothing
    \/ SessionEnd \/ Shutdown

Next == MainStep \/ int_handler \/ rpm_callback \/ Advance

Spec == Init /\ [][Next]_vars

\* ------------------------------------------------------------------------
\* Startup specification: main() from its first line (lines 250-290)
\* ------------------------------------------------------------------------
StartupInit ==
    /\ keep_running = 1
    /\ revolution_count = 0 /\ rpm = 0 /\ rpm_smooth = 0
    /\ speed_percent = 0
    /\ current_mode = "MANUAL_MODE"
    /\ motor_running = 0 /\ desired_rpm = 0
    /\ pid_integral = 0 /\ pid_last_error = 0
    /\ p_state = "STATE_NORMAL" /\ num_buffer = << >> /\ num_buf_idx = 0
    /\ pwm_duty = 0 /\ dir_a = 0 /\ dir_b = 0 /\ master_on = 0
    /\ pc = "start" /\ exit_code = -1
    /\ now = 0 /\ current_tick = 0 /\ last_loop_tick = 0 /\ last_send_tick = 0
    /\ raw_rpm = 0
    /\ io = NoCall /\ executed = << >> /\ telemetry = -1
    /\ scenario = TimingScenario
    /\ abi = "ILP32"
    /\ stream = << >> /\ fed = 0 /\ fragments = 0
    /\ server_sock = "none"

\* lines 255-275: pigpio_start fails and main() returns 1, or the pins are
\* configured, the all-stop runs and the tachometer callback is registered
StartHardware ==
    /\ pc = "start"
    /\ \E started \in BOOLEAN :
         IF started
         THEN Store(stop_all_activity(G)) /\ pc' = "listen" /\ UNCHANGED exit_code
         ELSE pc' = "done" /\ exit_code' = 1 /\ UNCHANGED globals
    /\ UNCHANGED << keep_running, locals, now, io, executed, telemetry, fixed >>

\* lines 283-290: socket, bind, listen and fcntl; no return value is tested
StartListen ==
    /\ pc = "listen"
    /\ server_sock' \in {"listening", "invalid"}
    /\ pc' = "accept"
    /\ UNCHANGED << keep_running, globals, locals, exit_code, now, io, executed,
                    telemetry, scenario, abi, stream, fed, fragments >>

StartupNext == StartHardware \/ StartListen \/ Next

SpecStartup == StartupInit /\ [][StartupNext]_vars

\* ------------------------------------------------------------------------
\* Parser specification: one byte stream fed to the parser of a fresh
\* session in fragments of any sizes, with no control tick in between
\* ------------------------------------------------------------------------
MaxStream == 3
ParserBytes == {"r", ":", "1", "0", "\n", "x", "a", "f"}

RECURSIVE StreamsUpTo(_)
StreamsUpTo(n) ==
    IF n = 0 THEN {<< >>}
    ELSE LET shorter == StreamsUpTo(n - 1) IN
         shorter \cup { Append(s, b) : s \in { q \in shorter : Len(q) = n - 1 },
                                       b \in ParserBytes }

SeventeenDigits ==
    <<"r", ":", "0", "0", "0", "0", "0", "0", "0", "0", "0", "0", "0", "0", "1",
      "2", "0", "9", "9", "\n">>
ExampleStreams ==
    { <<"r", ":", "1", "5", "0", "0", "x">>,
      <<"r", ":", "0", "0", "7", "f">>,
      <<"r", ":", "2", "1", "4", "7", "4", "8", "3", "6", "4", "7", "a">>,
      <<"r", ":", "3", "0", "0", "0", "0", "0", "0", "0", "0", "0", "f">>,
      <<"r", ":", "1", "2", "3", "4", "5", "6", "7", "8", "9", "0", "1", "2", "3",
        "4", "5", "x">>,
      SeventeenDigits,
      <<"r", ":", "1", "0", "\n">>,
      <<"r", ":", "1", "0", "\r", "r", ":", "0", "a">> }

ParserStreams == (StreamsUpTo(MaxStream) \ {<< >>}) \cup ExampleStreams

ParserInit ==
    /\ keep_running = 1
    /\ revolution_count = 0 /\ rpm = 0 /\ rpm_smooth = 0
    /\ speed_percent = 0
    /\ current_mode = "MANUAL_MODE"
    /\ motor_running = 0 /\ desired_rpm = 0
    /\ pid_integral = 0 /\ pid_last_error = 0
    /\ p_state = "STATE_NORMAL" /\ num_buffer = << >> /\ num_buf_idx = 0
    /\ pwm_duty = 0 /\ dir_a = 0 /\ dir_b = 0 /\ master_on = 0
    /\ pc = "read" /\ exit_code = -1
    /\ now = 0 /\ current_tick = 0 /\ last_loop_tick = 0 /\ last_send_tick = 0
    /\ raw_rpm = 0
    /\ io = NoCall /\ executed = << >> /\ telemetry = -1
    /\ scenario = [bytes |-> ParserBytes, burst |-> << >>, edges |-> {},
                   quantum |-> LOOP_PERIOD]
    /\ abi \in {"ILP32", "LP64"}
    /\ stream \in ParserStreams /\ fed = 0 /\ fragments = 0
    /\ server_sock = "listening"

\* lines 343-347, once per fragment: the next k bytes arrive in one read
FeedFragment ==
    /\ \E k \in 1 .. (Len(stream) - fed) :
         /\ ParseChunk(SubSeq(stream, fed + 1, fed + k), executed)
         /\ fed' = fed + k
         /\ fragments' = fragments + 1
    /\ UNCHANGED << keep_running, locals, pc, exit_code, now, io, telemetry,
                    scenario, abi, stream, server_sock >>

ParserNext == FeedFragment

SpecParser == ParserInit /\ [][ParserNext]_vars

\* ------------------------------------------------------------------------
\* Tick specification: one due control tick from sampled session states
\* ------------------------------------------------------------------------
TickSmooth == {0, 150, 1000, 4000}
TickCounts == {0, 9, 49, 55, 175, 600, 601}
TickTargets == {0, 500, 1000}
TickPowers == {0, 3, 50, 100}
TickIntegrals == {-50, 0, 50}

TickInit ==
    /\ keep_running = 1
    /\ revolution_count \in TickCounts
    /\ rpm_smooth \in TickSmooth /\ rpm = rpm_smooth
    /\ speed_percent \in TickPowers
    /\ current_mode \in {"MANUAL_MODE", "AUTO_MODE"}
    /\ motor_running \in {0, 1}
    /\ desired_rpm \in TickTargets
    /\ pid_integral \in TickIntegrals /\ pid_last_error = 0
    /\ p_state = "STATE_NORMAL" /\ num_buffer = << >> /\ num_buf_idx = 0
    /\ pwm_duty = speed_percent * PWM_SCALE
    /\ dir_a = 0 /\ dir_b = 1 /\ master_on = motor_running
    /\ pc = "tick" /\ exit_code = -1
    /\ now = LOOP_PERIOD /\ current_tick = LOOP_PERIOD
    /\ last_loop_tick = 0 /\ last_send_tick = LOOP_PERIOD
    /\ raw_rpm = 0
    /\ io = NoCall /\ executed = << >> /\ telemetry = -1
    /\ scenario = [bytes |-> {}, burst |-> << >>, edges |-> {},
                   quantum |-> LOOP_PERIOD]
    /\ abi = "ILP32"
    /\ stream = << >> /\ fed = 0 /\ fragments = 0
    /\ server_sock = "listening"

TickNext == TickCompute \/ TickFinish

SpecTick == TickInit /\ [][TickNext]_vars

\* ------------------------------------------------------------------------
\* Plant specification: a session that runs second after second with a rotor
\* on the tachometer.  The rotor follows the commanded power: in every second
\* it gives gain pulses for each percent of power (20 RPM per pulse), and it
\* starts from the smoothed reading start.  No byte arrives from the client:
\* the session is either in manual mode at half power or in automatic mode
\* with a target of 1000 RPM and the power still at 0.
\* ------------------------------------------------------------------------
PlantTicks == 40
PlantGains == {0, 1, 2, 5}
PlantStarts == {0, 4000, 12000}

PlantScenarios ==
    { [bytes |-> {}, burst |-> << >>, edges |-> {}, quantum |-> LOOP_PERIOD,
       gain |-> g, start |-> s] : g \in PlantGains, s \in PlantStarts }

PlantInit ==
    /\ keep_running = 1
    /\ scenario \in PlantScenarios
    /\ revolution_count = 0
    /\ rpm_smooth = scenario.start /\ rpm = rpm_smooth
    /\ current_mode \in {"MANUAL_MODE", "AUTO_MODE"}
    /\ speed_percent = IF current_mode = "AUTO_MODE" THEN 0 ELSE 50
    /\ desired_rpm = IF current_mode = "AUTO_MODE" THEN 1000 ELSE 0
    /\ motor_running = 1
    /\ pid_integral = 0 /\ pid_last_error = 0
    /\ p_state = "STATE_NORMAL" /\ num_buffer = << >> /\ num_buf_idx = 0
    /\ pwm_duty = speed_percent * PWM_SCALE
    /\ dir_a = 0 /\ dir_b = 1 /\ master_on = 1
    /\ pc = "loop" /\ exit_code = -1
    /\ now = 0 /\ current_tick = 0 /\ last_loop_tick = 0 /\ last_send_tick = 0
    /\ raw_rpm = 0
    /\ io = NoCall /\ executed = << >> /\ telemetry = -1
    /\ abi = "ILP32"
    /\ stream = << >> /\ fed = 0 /\ fragments = 0
    /\ server_sock = "listening"

\* one second passes in the usleep calls of line 352 while the rotor turns:
\* the callback of lines 103-105 runs once for each of its pulses.  The loop
\* comes round every millisecond, so it meets every second as it ends.
PlantSecond ==
    /\ pc = "loop"
    /\ now < PlantTicks * LOOP_PERIOD
    /\ Elapsed(now, last_loop_tick) < LOOP_PERIOD
    /\ now' = now + LOOP_PERIOD
    /\ revolution_count' = revolution_count + scenario.gain * speed_percent
    /\ UNCHANGED << keep_running, rpm, rpm_smooth, speed_percent, current_mode,
                    motor_running, desired_rpm, pid_integral, pid_last_error,
                    p_state, num_buffer, num_buf_idx, pwm_duty, dir_a, dir_b,
                    master_on, locals, pc, exit_code, io, executed, telemetry,
                    fixed >>

PlantNext ==
    \/ PlantSecond
    \/ LoopHead \/ TickCompute \/ TickFinish \/ SendTelemetry \/ ReadNothing

SpecPlant == PlantInit /\ [][PlantNext]_vars

\* ------------------------------------------------------------------------
\* Wrap specification: the server with a client whose session begins half a
\* second before the 32-bit tick counter of get_current_tick wraps to 0
\* ------------------------------------------------------------------------
MaxWrapTime == 4
WrapStart == TickModulus - SEND_PERIOD

WrapInit ==
    /\ keep_running = 1
    /\ revolution_count = 0 /\ rpm = 0 /\ rpm_smooth = 0
    /\ speed_percent = 0
    /\ current_mode = "MANUAL_MODE"
    /\ motor_running = 0 /\ desired_rpm = 0
    /\ pid_integral = 0 /\ pid_last_error = 0
    /\ p_state = "STATE_NORMAL" /\ num_buffer = << >> /\ num_buf_idx = 0
    /\ pwm_duty = 0 /\ dir_a = 0 /\ dir_b = 0 /\ master_on = 0
    /\ pc = "accept" /\ exit_code = -1
    /\ now = WrapStart
    /\ current_tick = 0 /\ last_loop_tick = 0 /\ last_send_tick = 0
    /\ raw_rpm = 0
    /\ io = NoCall /\ executed = << >> /\ telemetry = -1
    /\ scenario = TimingScenario
    /\ abi = "ILP32"
    /\ stream = << >> /\ fed = 0 /\ fragments = 0
    /\ server_sock = "listening"

\* one quantum of time passes in a usleep, through the wrap
AdvanceWrap ==
    /\ pc \in {"accept", "loop"}
    /\ Elapsed(now, WrapStart) < MaxWrapTime * scenario.quantum
    /\ now' = (now + scenario.quantum) % TickModulus
    /\ UNCHANGED << keep_running, globals, locals, pc, exit_code, io, executed,
                    telemetry, fixed >>

WrapNext == MainStep \/ int_handler \/ rpm_callback \/ AdvanceWrap

SpecWrap == WrapInit /\ [][WrapNext]_vars

\* ------------------------------------------------------------------------
\* Properties
\* ------------------------------------------------------------------------
Harmless == pwm_duty = 0 /\ dir_a = 0 /\ dir_b = 0 /\ master_on = 0
NoSession == pc \in {"accept", "shutdown", "done"}

AllStopped(s) ==
    /\ s.pwm_duty = 0 /\ s.dir_a = 0 /\ s.dir_b = 0 /\ s.master_on = 0
    /\ s.speed_percent = 0 /\ s.desired_rpm = 0
    /\ s.pid_integral = 0 /\ s.pid_last_error = 0
    /\ s.revolution_count = 0 /\ s.rpm = 0 /\ s.rpm_smooth = 0

\* C1: whenever main() is outside a client session (waiting in accept, or on
\* its way out), the actuator is harmless: duty 0, both direction outputs
\* inactive, master enable off, and the power and master flags are 0.
\* A session that has ended reaches accept only through the all-stop of
\* line 354.
C1_IdleIsHarmless ==
    /\ [](NoSession => Harmless /\ speed_percent = 0 /\ motor_running = 0)
    /\ [][ (pc = "session_end" /\ pc' # pc) =>
              (pc' = "accept" /\ Harmless' /\ speed_percent' = 0
                 /\ motor_running' = 0) ]_vars

\* a session that switched to AUTO ended by a failed telemetry write
C1_Witness ==
    /\ pc = "accept" /\ io = <<"write", "error">>
    /\ current_mode = "AUTO_MODE" /\ Harmless

\* C2: all-stop run from any reachable state ends with duty 0, coast, master
\* off, power 0, target 0, both accumulators 0 and the three tachometer
\* values 0.
C2_AllStopZeroes == AllStopped(stop_all_activity(G))

\* a Stop command has just been executed in AUTO mode
C2_Witness ==
    /\ pc = "loop" /\ executed = <<SimpleChar("x")>>
    /\ current_mode = "AUTO_MODE" /\ AllStopped(G)

\* C3: all-stop N times in a row gives what all-stop once gives, N = 1..MaxStops.
MaxStops == 3

RECURSIVE StopTimes(_, _)
StopTimes(s, n) == IF n = 0 THEN s ELSE StopTimes(stop_all_activity(s), n - 1)

C3_AllStopIdempotent ==
    \A n \in 1 .. MaxStops : StopTimes(G, n) = stop_all_activity(G)

\* the all-stops of lines 354 and 357 have run one after the other
C3_Witness ==
    /\ pc = "done" /\ current_mode = "AUTO_MODE" /\ AllStopped(G)

\* C4: once the flag is cleared main() reaches its exit with code 0 and the
\* actuator harmless; the flag is observed at the loop head, which leaves the
\* session; the handler's step changes the flag and nothing else.
\* main() is a thread that keeps being scheduled; the liveness is checked on
\* the runs of the timing scenario.
FairInit == Init /\ scenario = TimingScenario
FairSpec == FairInit /\ [][Next]_vars /\ WF_vars(MainStep)

C4_SignalLeadsToExit ==
    /\ (keep_running = 0) ~> (pc = "done" /\ exit_code = 0 /\ Harmless)
    /\ [][ /\ (keep_running' # keep_running) =>
                (keep_running' = 0 /\
                 UNCHANGED << globals, locals, pc, exit_code, now, io, executed,
                              telemetry, fixed >>)
           /\ (pc = "loop" /\ keep_running = 0 /\ pc' # pc) => pc' = "session_end"
         ]_vars

\* the signal was observed by the loop head of a session, and main() returned 0
C4_Witness ==
    /\ pc = "done" /\ exit_code = 0 /\ keep_running = 0
    /\ io = NoCall /\ Harmless

\* C5: a read that fails with an error other than would-block ends the
\* session (and all-stop follows).
C5_ReadErrorEndsSession ==
    (io = <<"read", "error">>) => pc \in {"session_end", "accept", "shutdown", "done"}

\* C6: whatever the fragments, the bytes fed so far have produced the
\* commands, the parser state and the controller state that one read of the
\* same bytes produces from the fresh session.
Fresh(build) ==
    [ revolution_count |-> 0, rpm |-> 0, rpm_smooth |-> 0, speed_percent |-> 0,
      current_mode |-> "MANUAL_MODE", motor_running |-> 0, desired_rpm |-> 0,
      pid_integral |-> 0, pid_last_error |-> 0, p_state |-> "STATE_NORMAL",
      num_buffer |-> << >>, num_buf_idx |-> 0, pwm_duty |-> 0, dir_a |-> 0,
      dir_b |-> 0, master_on |-> 0, abi |-> build, log |-> << >> ]

C6_FragmentationInvariance ==
    LET one == ParseBytes(Fresh(abi), SubSeq(stream, 1, fed))
    IN executed = one.log /\ [G EXCEPT !.log = one.log] = one

\* r:1500x was fed in the five reads "r", ":", "15", "00", "x"
C6_Witness ==
    /\ stream = <<"r", ":", "1", "5", "0", "0", "x">>
    /\ fed = Len(stream) /\ fragments = 5
    /\ executed = <<SetTargetRpm(1500), SimpleChar("x")>>

\* C7: r, ':', one to fifteen digits and a byte c that is neither a digit nor
\* a line terminator give exactly SetTargetRpm(the digits' decimal value) and
\* then c, and leave the parser in NORMAL.
RECURSIVE DecimalDigits(_)
DecimalDigits(n) ==
    LET d == <<"0", "1", "2", "3", "4", "5", "6", "7", "8", "9">>[(n % 10) + 1]
    IN IF n < 10 THEN <<d>> ELSE Append(DecimalDigits(n \div 10), d)

RECURSIVE StripZeros(_)
StripZeros(ds) ==
    IF Len(ds) > 1 /\ Head(ds) = "0" THEN StripZeros(Tail(ds)) ELSE ds

IsTokenThenChar(st) ==
    /\ Len(st) \in 4 .. 18
    /\ st[1] = "r" /\ st[2] = ":"
    /\ \A i \in 3 .. (Len(st) - 1) : isdigit(st[i])
    /\ ~isdigit(st[Len(st)]) /\ st[Len(st)] \notin LineTerminators

C7_TokenThenChar ==
    (IsTokenThenChar(stream) /\ fed = Len(stream)) =>
        /\ Len(executed) = 2
        /\ executed[1].kind = "SetTargetRpm"
        /\ executed[1].value >= 0
        /\ DecimalDigits(executed[1].value)
             = StripZeros(SubSeq(stream, 3, Len(stream) - 1))
        /\ executed[2] = SimpleChar(stream[Len(stream)])
        /\ p_state = "STATE_NORMAL"

\* C8: the power stays in 0..100 and the duty on the pin is the power times
\* 10000, within 0..1000000.
C8_PowerInRange ==
    /\ speed_percent \in 0 .. 100
    /\ pwm_duty = speed_percent * PWM_SCALE
    /\ pwm_duty \in 0 .. 1000000

\* a control tick asked for more than 100 percent and was clamped
C8_Witness ==
    /\ pc = "send" /\ current_mode = "AUTO_MODE" /\ motor_running = 1
    /\ pid_last_error >= 100 /\ speed_percent = 100

\* C9: a read that executes Faster or Slower in AUTO leaves the power and the
\* duty as they were; one that executes '+' or '-' in MANUAL leaves the target.
C9_ModeGating ==
    [][ /\ ( /\ pc = "read" /\ current_mode = "AUTO_MODE"
             /\ executed' \in {<<SimpleChar("f")>>, <<SimpleChar("d")>>} )
           => (speed_percent' = speed_percent /\ pwm_duty' = pwm_duty)
        /\ ( /\ pc = "read" /\ current_mode = "MANUAL_MODE"
             /\ executed' \in {<<SimpleChar("+")>>, <<SimpleChar("-")>>} )
           => desired_rpm' = desired_rpm
      ]_vars

\* Faster was just executed in AUTO mode, with the power at 10
C9_Witness ==
    /\ pc = "loop" /\ executed = <<SimpleChar("f")>>
    /\ current_mode = "AUTO_MODE" /\ speed_percent = 10

\* C10: at a control tick a reading above three times the smoothed value,
\* the smoothed value being above the noise floor, leaves the smoothed value
\* as it was (1000 and 3500), while 1100 after 1000 changes it.
NOISE_FLOOR == 200

C10_OutlierRejected ==
    [][ (pc = "tick" /\ pc' = "tick_reset") =>
          /\ (rpm_smooth > NOISE_FLOOR /\ RawRpm(revolution_count) > 3 * rpm_smooth)
               => rpm_smooth' = rpm_smooth
          /\ (rpm_smooth = 1000 /\ RawRpm(revolution_count) = 1100)
               => rpm_smooth' # rpm_smooth
      ]_vars

\* C11: every edge is counted in exactly one window: the counter that the
\* tick sets to zero at line 326 holds exactly the edges it read at line 315,
\* so that the reset discards none.
C11_NoEdgeLost ==
    [][ (pc = "tick_reset" /\ pc' = "send") =>
            raw_rpm = RawRpm(revolution_count) ]_vars

\* C12: a direction command given while a direction is set never shows both
\* outputs active or both inactive, neither after its first pin write nor
\* after its second.
LegalDirection(s) == s.dir_a # s.dir_b

C12_DirectionNeverIllegal ==
    (dir_a # dir_b) =>
        \A cmd \in {"c", "v"} : \A n \in 1 .. 2 :
            LegalDirection(gpio_writes(G, direction_writes(cmd), n))

\* C13: in one iteration the control tick comes first, the telemetry line
\* second and the parsing of the bytes read last: while the tick or the
\* telemetry is being evaluated no command of this iteration has been parsed
\* and, during the tick, nothing was written; the line carries the smoothed
\* RPM the tick left; a read that parses commands is the iteration's last
\* step.
C13_TickTelemetryParse ==
    /\ [](pc \in {"tick", "tick_reset", "send"} => executed = << >>)
    /\ [](pc \in {"tick", "tick_reset"} => (telemetry = -1 /\ io = NoCall))
    /\ [][ /\ (telemetry' # telemetry /\ telemetry' # -1) =>
                (pc = "send" /\ telemetry' = rpm_smooth /\ UNCHANGED globals)
           /\ (executed' # executed /\ executed' # << >>) =>
                (pc = "read" /\ pc' = "loop")
           /\ (pc = "tick_reset" /\ pc' # pc) => pc' = "send"
         ]_vars

\* an iteration ran its control tick, wrote its telemetry line and then
\* parsed a command
C13_Witness ==
    /\ pc = "loop" /\ telemetry >= 0 /\ executed # << >>
    /\ last_loop_tick = now /\ last_send_tick = now /\ now > 0

\* C14: a control tick in MANUAL mode, or with the master power flag off,
\* leaves the power, the duty and both accumulators as they were; the flag
\* and the master enable pin agree.
C14_TickFrame ==
    /\ [](master_on = motor_running)
    /\ [][ (pc \in {"tick", "tick_reset"}
              /\ (current_mode # "AUTO_MODE" \/ motor_running = 0)) =>
             UNCHANGED << speed_percent, pwm_duty, pid_integral, pid_last_error >>
         ]_vars

\* a control tick has just run in MANUAL mode with the motor at 20 percent
C14_Witness ==
    /\ pc = "send" /\ last_loop_tick = current_tick /\ current_tick > 0
    /\ current_mode = "MANUAL_MODE" /\ motor_running = 1
    /\ speed_percent = 20 /\ pwm_duty = 20 * PWM_SCALE

\* C15: the controller update of a control tick moves the power by at most
\* MAX_CHANGE_PER_LOOP points.
C15_StepAtMostFive ==
    [][ (pc = "tick_reset" /\ pc' = "send") =>
          /\ speed_percent' - speed_percent <= MAX_CHANGE_PER_LOOP
          /\ speed_percent - speed_percent' <= MAX_CHANGE_PER_LOOP ]_vars

\* a tick with an error of 600 RPM (unclamped output 6) raised the power by 5
C15_Witness ==
    /\ pc = "send" /\ last_loop_tick = current_tick /\ current_tick > 0
    /\ current_mode = "AUTO_MODE" /\ motor_running = 1
    /\ pid_last_error = 600 /\ speed_percent = 5

\* C16: a closed-loop control tick with target 0 commands the power (and
\* the duty) to 0 in that tick.
C16_ZeroTargetCutsPower ==
    [][ ( /\ pc = "tick_reset" /\ pc' = "send"
          /\ current_mode = "AUTO_MODE" /\ motor_running = 1
          /\ desired_rpm = 0 )
        => (speed_percent' = 0 /\ pwm_duty' = 0) ]_vars

\* C17: a closed-loop control tick with a positive target and a smoothed RPM
\* of 0 does not move the integral toward saturation, and when the tick
\* before it was such a tick too (its error was the whole target) it does
\* not raise the power again.
C17_NoWindupOnStall ==
    [][ ( /\ pc = "tick_reset" /\ pc' = "send"
          /\ current_mode = "AUTO_MODE" /\ motor_running = 1
          /\ desired_rpm > 0 /\ rpm_smooth = 0 )
        => /\ pid_integral' <= pid_integral
           /\ (pid_last_error = desired_rpm) => speed_percent' <= speed_percent
      ]_vars

\* C18: the integral stays within PID_MIN_INTEGRAL .. PID_MAX_INTEGRAL.
C18_IntegralBounded ==
    pid_integral >= PID_MIN_INTEGRAL /\ pid_integral <= PID_MAX_INTEGRAL

\* a tick whose error of 500 was clamped to the upper limit
C18_Witness ==
    /\ pc = "send" /\ current_mode = "AUTO_MODE"
    /\ pid_last_error = 500 /\ pid_integral = PID_MAX_INTEGRAL

\* C19: a read that executes just a SetTargetRpm(n) while the mode is not
\* AUTO sets the target to n, enters AUTO, enables the master power, leaves
\* a direction set (the one chosen, or the default) and clears both
\* accumulators.
C19_SetTargetEntersAuto ==
    [][ ( /\ pc = "read" /\ current_mode # "AUTO_MODE"
          /\ Len(executed') = 1 /\ executed'[1].kind = "SetTargetRpm" )
        => /\ desired_rpm' = executed'[1].value
           /\ current_mode' = "AUTO_MODE"
           /\ motor_running' = 1 /\ master_on' = 1
           /\ dir_a' # dir_b'
           /\ (dir_a # dir_b) => UNCHANGED << dir_a, dir_b >>
           /\ pid_integral' = 0 /\ pid_last_error' = 0
      ]_vars

\* C20: Auto, from every reachable state, gives mode AUTO, master power on,
\* a direction (the chosen one kept, clockwise otherwise), a nonzero target
\* (500 if it was 0, else as it was) and both accumulators 0; a read that
\* executes just 'a' leaves exactly that.
AfterAuto(before, after) ==
    /\ after.current_mode = "AUTO_MODE"
    /\ after.motor_running = 1 /\ after.master_on = 1
    /\ ~(after.dir_a = 0 /\ after.dir_b = 0)
    /\ IF before.dir_a = 0 /\ before.dir_b = 0
       THEN after.dir_a = 0 /\ after.dir_b = 1
       ELSE after.dir_a = before.dir_a /\ after.dir_b = before.dir_b
    /\ after.desired_rpm # 0
    /\ after.desired_rpm = IF before.desired_rpm = 0 THEN DEFAULT_TARGET
                            ELSE before.desired_rpm
    /\ after.pid_integral = 0 /\ after.pid_last_error = 0

C20_AutoCommand ==
    /\ [] AfterAuto(G, process_command(G, "a"))
    /\ [][ (pc = "read" /\ executed' = <<SimpleChar("a")>>) => AfterAuto(G, G') ]_vars

\* 'a' was executed after 'v': counter-clockwise kept, target defaulted
C20_Witness ==
    /\ pc = "loop" /\ executed = <<SimpleChar("a")>>
    /\ dir_a = 1 /\ dir_b = 0 /\ desired_rpm = DEFAULT_TARGET
    /\ current_mode = "AUTO_MODE" /\ master_on = 1

\* C21: Stop keeps the mode, in MANUAL and in AUTO, and leaves the power 0
\* and the master power off: for the command applied to any reachable state,
\* and for a read that executes just 'x'.
AfterStop(before, after) ==
    /\ after.current_mode = before.current_mode
    /\ after.speed_percent = 0 /\ after.pwm_duty = 0
    /\ after.motor_running = 0 /\ after.master_on = 0

C21_StopKeepsMode ==
    /\ [] AfterStop(G, process_command(G, "x"))
    /\ [][ (pc = "read" /\ executed' = <<SimpleChar("x")>>) => AfterStop(G, G') ]_vars

\* Stop was executed in AUTO mode, after a control tick of the session
C21_Witness ==
    /\ pc = "loop" /\ executed = <<SimpleChar("x")>>
    /\ current_mode = "AUTO_MODE" /\ speed_percent = 0 /\ master_on = 0
    /\ last_loop_tick > 0

\* C22: accepting a client leaves the safe zero state (power 0, coast,
\* master off, target 0, accumulators 0, mode MANUAL, parser NORMAL), and no
\* step other than a read that parses bytes takes the server out of it.
SafeZero ==
    /\ Harmless /\ speed_percent = 0 /\ motor_running = 0
    /\ desired_rpm = 0 /\ pid_integral = 0 /\ pid_last_error = 0
    /\ current_mode = "MANUAL_MODE" /\ p_state = "STATE_NORMAL"

C22_SessionStartsSafe ==
    [][ /\ (pc = "accept" /\ pc' = "loop") => SafeZero'
        /\ (SafeZero /\ ~(pc = "read" /\ io' = <<"read", "data">>)) => SafeZero'
      ]_vars

\* a client was accepted after a session that had typed digits of a token
C22_Witness ==
    /\ pc = "loop" /\ io = <<"accept", "ok">>
    /\ num_buf_idx > 0 /\ SafeZero

\* C23: the target is never negative.
C23_TargetNonNegative == desired_rpm >= 0

\* C24: the RPM of a due control tick is the integer part of (c/3)*60, that
\* is 20 * c, for the pulse count c the tick reads.
C24_RpmIsTwentyTimesCount ==
    [][ (pc = "tick" /\ pc' = "tick_reset") => raw_rpm' = 20 * revolution_count ]_vars

\* C25: the RPM of a due control tick is the revolutions divided by the time
\* elapsed since the previous tick: (c/3) / (elapsed/LOOP_PERIOD) * 60.
C25_RpmUsesElapsedTime ==
    [][ (pc = "tick" /\ pc' = "tick_reset") =>
          raw_rpm' = (20 * revolution_count * LOOP_PERIOD)
                        \div Elapsed(current_tick, last_loop_tick) ]_vars

\* C26: accept is called only while main() is in the accept loop, with no
\* session open and the actuator stopped; the accept loop is entered from a
\* session only through the all-stop of the session's end, and left only for
\* a session or for the shutdown.
C26_OneClientAtATime ==
    [][ /\ (io' # io /\ io'[1] = "accept") => (pc = "accept" /\ Harmless)
        /\ (pc' = "accept" /\ pc # "accept") => (pc = "session_end" /\ Harmless')
        /\ (pc = "accept" /\ pc' # pc) => pc' \in {"loop", "shutdown"}
      ]_vars

\* a second client was accepted after a session had written telemetry, ended
\* and been stopped
C26_Witness ==
    /\ pc = "loop" /\ io = <<"accept", "ok">>
    /\ telemetry >= 0 /\ Harmless

\* C27: an accept, a read or a telemetry write that would block changes no
\* motor or controller state, does not end the session and does not end the
\* process.
C27_WouldBlockIsNoError ==
    [][ (io' # io /\ io'[2] = "wouldblock") =>
          /\ UNCHANGED << globals, keep_running, exit_code >>
          /\ pc' \notin {"session_end", "shutdown", "done"}
          /\ (pc = "accept") => pc' = "accept"
      ]_vars

\* a telemetry write would block while the motor ran; main() goes on to read
C27_Witness ==
    /\ pc = "read" /\ io = <<"write", "wouldblock">>
    /\ motor_running = 1 /\ speed_percent > 0

\* C28: a telemetry write that would block leaves the line due, so that the
\* next iteration writes it again.
C28_WouldBlockWriteRetried ==
    [][ (pc = "send" /\ io' = <<"write", "wouldblock">>) =>
          last_send_tick' = last_send_tick ]_vars

\* C29: a disconnect (end of stream or failed write) is followed by the
\* accept loop unless a signal arrives; the session's end leads nowhere but
\* to the accept loop, and main() leaves the accept loop for its exit only with
\* the flag cleared.
C29_DisconnectNeverTerminates ==
    /\ ((io \in {<<"read", "eof">>, <<"write", "error">>} /\ pc = "session_end")
          ~> (pc = "accept" \/ keep_running = 0))
    /\ [](pc \in {"shutdown", "done"} => keep_running = 0)
    /\ [][ (pc = "session_end" /\ pc' # pc) => pc' = "accept" ]_vars

\* after a session that wrote telemetry has ended, main() polls accept again
C29_Witness ==
    /\ pc = "accept" /\ io = <<"accept", "wouldblock">>
    /\ telemetry >= 0 /\ keep_running = 1 /\ exit_code = -1

\* C30: a failed start is fatal: when the hardware could not be initialised
\* main() has returned nonzero, and when the listening socket could not be
\* set up main() has returned nonzero as well, without entering the accept
\* loop.
C30_StartupFailureFatal ==
    /\ (pc = "done" /\ server_sock = "none") => exit_code = 1
    /\ (server_sock = "invalid") => (pc = "done" /\ exit_code \notin {0, -1})

\* C31: in a session the telemetry line is due by SEND_PERIOD alone: a write
\* is attempted exactly in the iterations whose clock reading is at least
\* SEND_PERIOD after the last attempt, whatever the mode, the master power
\* and the control tick, and a line that is written carries the smoothed RPM.
C31_TelemetryPeriod ==
    [][ (pc = "send" /\ pc' # pc) =>
          /\ (io'[1] = "write") <=>
                (Elapsed(current_tick, last_send_tick) >= SEND_PERIOD)
          /\ (io'[1] = "write" /\ io'[2] # "error") =>
                (last_send_tick' = current_tick)
          /\ (io' = <<"write", "ok">>) => (telemetry' = rpm_smooth)
          /\ UNCHANGED globals
      ]_vars

\* a line was written half a period after the control tick, in AUTO mode
C31_Witness ==
    /\ pc = "read" /\ io = <<"write", "ok">> /\ telemetry = rpm_smooth
    /\ last_send_tick = current_tick
    /\ Elapsed(current_tick, last_loop_tick) = SEND_PERIOD
    /\ last_loop_tick > 0
    /\ current_mode = "AUTO_MODE"

\* C32: with a rotor that follows the commanded power and a fixed target of
\* 1000 RPM, the closed loop has brought the smoothed RPM to within the
\* deadband of the target after SettleTicks control ticks, and it stays there.
SettleTicks == 30
RPM_DEADBAND == 25
C32_Converges ==
    ( /\ current_mode = "AUTO_MODE" /\ scenario.gain >= 1 /\ scenario.start = 0
      /\ pc = "send" /\ now >= SettleTicks * LOOP_PERIOD )
    => ( /\ rpm_smooth >= desired_rpm - RPM_DEADBAND
         /\ rpm_smooth <= desired_rpm + RPM_DEADBAND )

\* C40: when no tachometer pulse arrives any more (scenario.gain = 0), the
\* smoothed RPM is 0 after SettleTicks seconds of control ticks at the
\* latest, from any reading up to the ceiling, and once it is 0 it stays 0,
\* in manual and in automatic mode, whatever the target and the power.
C40_StoppedRotorReadsZero ==
    /\ []( (scenario.gain = 0 /\ now >= SettleTicks * LOOP_PERIOD)
             => (rpm_smooth = 0 /\ rpm = 0) )
    /\ [][ (scenario.gain = 0 /\ rpm_smooth = 0) => (rpm_smooth' = 0) ]_vars

\* the rotor stood still from a reading of 12000 on, the loop has driven
\* the power to 100 percent, and the line sent to the client says 0
C40_Witness ==
    /\ scenario.gain = 0 /\ scenario.start = MAX_PHYSICS_RPM
    /\ current_mode = "AUTO_MODE" /\ speed_percent = 100
    /\ rpm_smooth = 0 /\ telemetry = 0

\* C33: the digit buffer never holds more than 15 characters.  For any byte
\* stream the index stays in 0..15 and counts the characters stored, so the
\* 16-byte array keeps a NUL after them; a digit that arrives when 15 are
\* stored changes nothing; and the ':' that opens the digits empties the
\* buffer, whatever an earlier token has left in it.
C33_DigitBufferBounded ==
    /\ num_buf_idx \in 0 .. (NUM_BUFFER_SIZE - 1)
    /\ Len(num_buffer) = num_buf_idx
    /\ \A i \in 1 .. Len(num_buffer) : isdigit(num_buffer[i])
    /\ (p_state = "STATE_READ_NUM" /\ num_buf_idx = NUM_BUFFER_SIZE - 1)
          => \A d \in Digits : parse_input_byte(G, d) = G
    /\ (p_state = "STATE_WAIT_COLON")
          => LET u == parse_input_byte(G, ":") IN
             /\ u.p_state = "STATE_READ_NUM"
             /\ u.num_buffer = << >> /\ u.num_buf_idx = 0

\* seventeen digits have arrived and the first fifteen are in the buffer
C33_Witness ==
    /\ stream = SeventeenDigits /\ fed = 19
    /\ p_state = "STATE_READ_NUM" /\ num_buf_idx = NUM_BUFFER_SIZE - 1
    /\ num_buffer = SubSeq(stream, 3, 17)

\* the buffer still holds the digits of the last token when the next one
\* opens
C33_WitnessRefill ==
    /\ p_state = "STATE_WAIT_COLON" /\ num_buf_idx = 2 /\ fed = 6

\* C34: a malformed set-target token degrades gracefully.  When r is followed
\* by a byte other than ':', or r: directly by a non-digit, the server ends
\* up exactly where that byte alone would have taken it as a simple command
\* (nowhere, for a line terminator after r:): no SetTargetRpm, no command for
\* the pending r, target and mode untouched by the token, parser in NORMAL.
\* The same holds from every state the parser can be in.
MalformedToken(st) ==
    /\ Len(st) \in {2, 3} /\ st[1] = "r"
    /\ \/ Len(st) = 2 /\ st[2] # ":"
       \/ Len(st) = 3 /\ st[2] = ":" /\ ~isdigit(st[3])
C34_MalformedToken ==
    /\ MalformedToken(stream) =>
          IF fed < Len(stream)
          THEN executed = << >> /\ [G EXCEPT !.p_state = "STATE_NORMAL"] = Fresh(abi)
          ELSE LET c == stream[Len(stream)]
                   alone == IF Len(stream) = 3 /\ c \in LineTerminators
                            THEN Fresh(abi)
                            ELSE process_command(Fresh(abi), c)
               IN /\ [G EXCEPT !.log = executed] = alone
                  /\ p_state = "STATE_NORMAL"
                  /\ \A i \in 1 .. Len(executed) : executed[i] = SimpleChar(c)
    /\ (p_state = "STATE_WAIT_COLON") =>
          \A c \in ParserBytes \ {":"} :
             parse_input_byte(G, c) =
                process_command([G EXCEPT !.p_state = "STATE_NORMAL"], c)
    /\ (p_state = "STATE_READ_NUM" /\ num_buf_idx = 0) =>
          \A c \in ParserBytes \ Digits :
             parse_input_byte(G, c) =
                IF c \in LineTerminators
                THEN [G EXCEPT !.p_state = "STATE_NORMAL"]
                ELSE process_command([G EXCEPT !.p_state = "STATE_NORMAL"], c)

\* "ra": the r is dropped and the a switches to automatic mode
C34_Witness ==
    /\ stream = <<"r", "a">> /\ fed = 2
    /\ executed = <<SimpleChar("a")>>
    /\ current_mode = "AUTO_MODE" /\ desired_rpm = DEFAULT_TARGET
    /\ p_state = "STATE_NORMAL"

\* "r:f": the f is executed as Faster and no target is set
C34_WitnessNoDigits ==
    /\ stream = <<"r", ":", "f">> /\ fed = 3
    /\ executed = <<SimpleChar("f")>>
    /\ desired_rpm = 0 /\ current_mode = "MANUAL_MODE"

\* C35: a raw RPM above the ceiling of 12000 is rejected without a word: the
\* instantaneous and the smoothed RPM keep their values, while the rest of
\* the tick goes on as for any reading: the pulse counter is reset to 0, the
\* tick is booked, and the controller update runs on the smoothed RPM that
\* was kept.  A raw RPM of exactly 12000 is accepted.
C35_CeilingRejection ==
    [][ /\ (pc = "tick" /\ pc' = "tick_reset") =>
             /\ raw_rpm' = RawRpm(revolution_count)
             /\ IF raw_rpm' > MAX_PHYSICS_RPM
                THEN UNCHANGED << rpm, rpm_smooth >>
                ELSE rpm' = raw_rpm' /\ rpm_smooth' = Smooth(rpm_smooth, raw_rpm')
             /\ UNCHANGED << revolution_count, speed_percent, pwm_duty >>
        /\ (pc = "tick_reset" /\ pc' = "send") =>
             /\ revolution_count' = 0
             /\ last_loop_tick' = current_tick
             /\ UNCHANGED << rpm, rpm_smooth >>
             /\ (current_mode = "AUTO_MODE" /\ motor_running = 1) =>
                   /\ pid_last_error' = desired_rpm - rpm_smooth
                   /\ pwm_duty' = speed_percent' * PWM_SCALE
      ]_vars

\* 601 pulses gave 12020 RPM, the smoothed RPM is still 1000, and the tick
\* is about to reset the counter and to run the controller
C35_Witness ==
    /\ pc = "tick_reset" /\ raw_rpm = 12020 /\ revolution_count = 601
    /\ rpm_smooth = 1000 /\ rpm = 1000
    /\ current_mode = "AUTO_MODE" /\ motor_running = 1 /\ desired_rpm = 500

\* the rejected tick is over: counter at 0, controller run on the kept 1000
C35_WitnessAfter ==
    /\ pc = "send" /\ revolution_count = 0 /\ rpm_smooth = 1000
    /\ current_mode = "AUTO_MODE" /\ motor_running = 1 /\ desired_rpm = 500
    /\ pid_last_error = -500 /\ speed_percent = 45

\* C36: the periodic checks survive the wrap of the 32-bit tick counter.  The
\* control tick and the telemetry fire in exactly those iterations in which
\* at least their period of true time has passed since they last fired, also
\* when the counter has wrapped in between and the new reading is the
\* smaller number.
TrueElapsed(cur, last) ==
    IF cur >= last THEN cur - last ELSE (TickModulus - last) + cur
C36_WrapAround ==
    [][ /\ (pc = "tick" /\ pc' # pc) =>
             ( (pc' = "tick_reset") <=>
                 (TrueElapsed(current_tick, last_loop_tick) >= LOOP_PERIOD) )
        /\ (pc = "send" /\ pc' # pc) =>
             ( (io'[1] = "write") <=>
                 (TrueElapsed(current_tick, last_send_tick) >= SEND_PERIOD) )
      ]_vars

\* a control tick fires one second after the last one, across the wrap
C36_Witness ==
    /\ pc = "tick_reset"
    /\ current_tick < last_loop_tick
    /\ last_loop_tick = WrapStart /\ current_tick = SEND_PERIOD

\* a telemetry line is written half a second after the last one, across the
\* wrap
C36_WitnessTelemetry ==
    /\ pc = "read" /\ io = <<"write", "ok">>
    /\ last_send_tick = 0 /\ current_tick = 0 /\ last_loop_tick = WrapStart

\* C37: a token r:<digits> takes effect exactly when the first byte that is
\* not a digit arrives after the digits, whatever that byte is.  As long as
\* only r, ':' and digits have arrived, in however many reads, nothing has
\* been executed and target, mode, power and motor outputs are those of the
\* fresh session; with the closing byte the target is set, before the byte
\* itself is executed if it is not a line terminator.
IsToken(st) ==
    /\ Len(st) >= 4
    /\ st[1] = "r" /\ st[2] = ":"
    /\ \A i \in 3 .. (Len(st) - 1) : isdigit(st[i])
    /\ ~isdigit(st[Len(st)])
C37_WitnessPending ==
    /\ stream = <<"r", ":", "0", "0", "7", "f">> /\ fed = 5 /\ fragments = 3
    /\ p_state = "STATE_READ_NUM" /\ num_buf_idx = 3
    /\ executed = << >> /\ desired_rpm = 0

C38_ActiveLoopHasDirection ==
    ( /\ current_mode = "AUTO_MODE" /\ motor_running = 1 /\ master_on = 1
      /\ desired_rpm > 0 )
    => ~(dir_a = 0 /\ dir_b = 0)

\* C39: a read that executes just a SetTargetRpm(n) with n > 0 leaves the
\* closed loop active, whatever the state before: mode AUTO, motor running,
\* master power enabled, target n.
C39_SetTargetActivates ==
    [][ ( /\ pc = "read"
          /\ Len(executed') = 1 /\ executed'[1].kind = "SetTargetRpm"
          /\ executed'[1].value > 0 )
        => /\ desired_rpm' = executed'[1].value
           /\ current_mode' = "AUTO_MODE"
           /\ motor_running' = 1 /\ master_on' = 1
      ]_vars

====
